---------------------------- MODULE Spec2Model ----------------------------
(***************************************************************************)
(* Model of src/src/phone-auth.plugin.ts: PhoneAuthService.requestOtp,     *)
(* PhoneAuthService.verifyOtp and PhoneAuthenticationStrategy.authenticate *)
(* running as concurrent requests of one server process.                   *)
(*                                                                         *)
(* Every request is an async function.  The code between two awaits runs   *)
(* without interruption; at an await other requests may run.  A call runs  *)
(* up to its first await in the step that starts it; every later step of   *)
(* the model is the completion of one awaited call together with the code  *)
(* that follows it up to the next await (or the return).  The awaited call *)
(* takes effect on the table or the directory in the step that completes   *)
(* it.  authenticate awaits verifyOtp (line 183): the step in which        *)
(* verifyOtp returns leaves authenticate waiting, and authenticate resumes *)
(* in a step of its own.  A request that has returned frees its slot and   *)
(* leaves its result in lastResult.                                        *)
(*                                                                         *)
(* JavaScript values: an optional value is the empty tuple (undefined) or  *)
(* a one-element tuple; a string that the code inspects character by       *)
(* character (the OTP) is a tuple of one-character strings.                *)
(***************************************************************************)
EXTENDS Integers, Sequences, FiniteSets

VARIABLES
    options,      \* PhoneAuthPlugin.options (static, set once by init)
    store,        \* the PhoneOtp table: rows in insertion order, id = index
    users,        \* directory: the User rows with their external auth method
    customers,    \* directory: the Customer rows
    frame,        \* per request slot: the call running in it, if any
    lastResult,   \* history: the call that returned last, and what it returned
    trueReturns   \* history: per row, the verifyOtp calls that returned true on it

vars == <<options, store, users, customers, frame, lastResult, trueReturns>>

-----------------------------------------------------------------------------
(* Bounds of the model *)

MaxRecords == 2
MaxUsers == 2

Procs == {1, 2}
Phones == {"+1000", "+15551234567"}
Seeds == {1, 12}

-----------------------------------------------------------------------------
(* JavaScript values *)

Undefined == <<>>
Some(v) == <<v>>

\* x || d for a boolean option x
BoolOr(x, d) == IF x # Undefined /\ x[1] THEN TRUE ELSE d

\* truthiness of an optional number
TruthyNum(x) == x # Undefined /\ x[1] # 0

Pending == [kind |-> "pending", str |-> "", bool |-> FALSE, user |-> 0]
RetUndefined == [kind |-> "undefined", str |-> "", bool |-> FALSE, user |-> 0]
RetString(s) == [kind |-> "string", str |-> s, bool |-> FALSE, user |-> 0]
RetBool(b) == [kind |-> "boolean", str |-> "", bool |-> b, user |-> 0]
RetUser(u) == [kind |-> "user", str |-> "", bool |-> FALSE, user |-> u]
Rejected(e) == [kind |-> "rejected", str |-> e, bool |-> FALSE, user |-> 0]

-----------------------------------------------------------------------------
(* otp-generator, as requestOtp calls it *)

digits == <<"0", "1", "2", "3", "4", "5", "6", "7", "8", "9">>
lowerCaseAlphabets ==
    <<"a", "b", "c", "d", "e", "f", "g", "h", "i", "j", "k", "l", "m",
      "n", "o", "p", "q", "r", "s", "t", "u", "v", "w", "x", "y", "z">>
upperCaseAlphabets ==
    <<"A", "B", "C", "D", "E", "F", "G", "H", "I", "J", "K", "L", "M",
      "N", "O", "P", "Q", "R", "S", "T", "U", "V", "W", "X", "Y", "Z">>
specialChars == <<"#", "!", "&", "@">>

AllowsChars(o) ==
    (IF o.digits THEN digits ELSE << >>)
    \o (IF o.lowerCaseAlphabets THEN lowerCaseAlphabets ELSE << >>)
    \o (IF o.upperCaseAlphabets THEN upperCaseAlphabets ELSE << >>)
    \o (IF o.specialChars THEN specialChars ELSE << >>)

\* The i-th random index of a run of the generator seeded with seed.
RandomInt(seed, i, n) == (seed * i) % n

\* otpGenerator.generate(length, o): length characters, each drawn from the
\* enabled classes.  The library draws again when the first character would
\* be "0" and digits are enabled; FirstDrawAccepted is that test.
Generate(length, o, seed) ==
    [i \in 1..length |->
        AllowsChars(o)[RandomInt(seed, i, Len(AllowsChars(o))) + 1]]

FirstDrawAccepted(length, o, seed) ==
    length = 0 \/ ~(o.digits /\ Generate(length, o, seed)[1] = "0")

DefaultLength == 6

\* lines 74-88: the length and the classes handed to the generator
GeneratorLength(opts) ==
    IF opts # Undefined /\ TruthyNum(opts[1].length)
    THEN opts[1].length[1]
    ELSE DefaultLength

DigitsOption(g) == BoolOr(g.digits, TRUE)

GeneratorClasses(opts) ==
    IF opts # Undefined /\ TruthyNum(opts[1].length)
    THEN [upperCaseAlphabets |-> BoolOr(opts[1].upperCaseAlphabets, FALSE),
          specialChars |-> BoolOr(opts[1].specialChars, FALSE),
          digits |-> DigitsOption(opts[1]),
          lowerCaseAlphabets |-> BoolOr(opts[1].lowerCaseAlphabets, FALSE)]
    ELSE [upperCaseAlphabets |-> FALSE, specialChars |-> FALSE,
          digits |-> TRUE, lowerCaseAlphabets |-> FALSE]

NewOtp(opts, seed) ==
    Generate(GeneratorLength(opts), GeneratorClasses(opts), seed)

SeedAccepted(opts, seed) ==
    FirstDrawAccepted(GeneratorLength(opts), GeneratorClasses(opts), seed)

\* The configurations the request model starts from.
Policy(len, d, u, l, s) ==
    [length |-> len, digits |-> d, upperCaseAlphabets |-> u,
     lowerCaseAlphabets |-> l, specialChars |-> s]

RequestPolicies ==
    { Undefined,
      Some(Policy(Some(1), Some(FALSE), Some(TRUE), Undefined, Undefined)),
      Some(Policy(Undefined, Undefined, Some(TRUE), Undefined, Undefined)) }

\* The codes a client may submit: the codes the generator produces under the
\* current configuration.  A code that is not on record for the phone is a
\* wrong code.
OtpInputs ==
    {NewOtp(options.otpGeneratorOptions, s) :
        s \in {x \in Seeds : SeedAccepted(options.otpGeneratorOptions, x)}}

-----------------------------------------------------------------------------
(* The PhoneOtp table (lines 32-46) and the repository calls on it *)

\* save keeping one row per phone: the row of the phone is overwritten
SaveRow_Upsert(st, phoneOtp) ==
    IF \E i \in 1..Len(st) : st[i].phone = phoneOtp.phone
    THEN [i \in 1..Len(st) |->
            IF st[i].phone = phoneOtp.phone
            THEN [st[i] EXCEPT !.otp = phoneOtp.otp,
                               !.verified = phoneOtp.verified]
            ELSE st[i]]
    ELSE Append(st, [id |-> Len(st) + 1, phone |-> phoneOtp.phone,
                     otp |-> phoneOtp.otp, verified |-> phoneOtp.verified])

\* getRepository(ctx, PhoneOtp).save(phoneOtp): a new row with a fresh id
SaveRow(st, phoneOtp) ==
    Append(st, [id |-> Len(st) + 1, phone |-> phoneOtp.phone,
                otp |-> phoneOtp.otp, verified |-> phoneOtp.verified])

\* findOne matching the newest row of the phone only
FindOneMatches_LatestOnly(st, phoneOtp) ==
    {i \in 1..Len(st) : /\ st[i].phone = phoneOtp.phone
                        /\ st[i].otp = phoneOtp.otp
                        /\ st[i].verified = phoneOtp.verified
                        /\ \A j \in 1..Len(st) :
                              st[j].phone = phoneOtp.phone => j <= i}

\* findOne with the verified flag left out of the probe
FindOneMatches_IgnoreVerified(st, phoneOtp) ==
    {i \in 1..Len(st) : /\ st[i].phone = phoneOtp.phone
                        /\ st[i].otp = phoneOtp.otp}

\* findOne with the code left out of the probe
FindOneMatches_IgnoreOtp(st, phoneOtp) ==
    {i \in 1..Len(st) : /\ st[i].phone = phoneOtp.phone
                        /\ st[i].verified = phoneOtp.verified}

\* getRepository(ctx, PhoneOtp).findOne(phoneOtp): the ids of the rows equal
\* to the probe on phone, otp and verified; the query returns one of them
FindOneMatches(st, phoneOtp) ==
    {i \in 1..Len(st) : /\ st[i].phone = phoneOtp.phone
                        /\ st[i].otp = phoneOtp.otp
                        /\ st[i].verified = phoneOtp.verified}

\* update that writes nothing
MarkVerified_Nothing(st, id) == st

\* getRepository(ctx, PhoneOtp).update(id, { verified: true })
MarkVerified(st, id) == [st EXCEPT ![id].verified = TRUE]

-----------------------------------------------------------------------------
(* The directory: ExternalAuthenticationService and CustomerService *)

StrategyName == "phone"

\* findCustomerUser(ctx, strategy, externalIdentifier)
FindCustomerUser_Matches(us, strategy, externalIdentifier) ==
    {i \in 1..Len(us) : /\ us[i].strategy = strategy
                        /\ us[i].externalIdentifier = externalIdentifier}

\* createCustomerAndUser(ctx, config): the new User row
NewUser(us, config) ==
    [id |-> Len(us) + 1, strategy |-> config.strategy,
     externalIdentifier |-> config.externalIdentifier,
     identifier |-> config.emailAddress, verified |-> config.verified]

\* createCustomerAndUser(ctx, config): the new Customer row
NewCustomerRow(cs, userId, config) ==
    [id |-> Len(cs) + 1, userId |-> userId,
     emailAddress |-> config.emailAddress, firstName |-> config.firstName,
     lastName |-> config.lastName, phoneNumber |-> ""]

\* customerService.findOneByUserId(ctx, userId)
FindOneByUserId_Matches(cs, userId) ==
    {i \in 1..Len(cs) : cs[i].userId = userId}

\* defaultUserDataBuilder(phone) is supplied by the host: any profile
BuilderResults ==
    {[emailAddress |-> e, firstName |-> "", lastName |-> ""] :
        e \in {"", "u@x.com"}}

-----------------------------------------------------------------------------
(* The code of the three operations between awaits.  A call frame holds the *)
(* locals of the source under their names; calls is the list of the awaited *)
(* calls the request has made so far, each with its outcome.                *)

OtpSentMessage == "OTP sent successfully, please verify"
InvalidOtpMessage == "Invalid OTP"
EmailRequiredMessage == "Valid default email address is required"

\* line 92: is a notifier configured
HasSendOtp(opts) == opts.sendOtp

\* requestOtp building the entity already verified
EnterRequestOtp_Verified(f, opts, phone, seed) ==
    [f EXCEPT !.op = "requestOtp",
              !.phoneOtp = [phone |-> phone,
                            otp |-> NewOtp(opts.otpGeneratorOptions, seed),
                            verified |-> TRUE],
              !.pc = IF HasSendOtp(opts) THEN "sendOtp" ELSE "save"]

\* lines 70-92: the entity is built and the first awaited call is issued
EnterRequestOtp(f, opts, phone, seed) ==
    [f EXCEPT !.op = "requestOtp",
              !.phoneOtp = [phone |-> phone, otp |-> NewOtp(opts.otpGeneratorOptions, seed),
                            verified |-> FALSE],
              !.pc = IF HasSendOtp(opts) THEN "sendOtp" ELSE "save"]

\* requestOtp going on to save whatever sendOtp did
AfterSendOtp_IgnoreThrow(f, outcome) ==
    [f EXCEPT !.pc = "save", !.calls = Append(@, "sendOtp:" \o outcome)]

\* requestOtp taking a sendOtp that resolved false for a failed delivery
AfterSendOtp_FalseIsFailure(f, outcome) ==
    IF outcome \in {"throw", "false"}
    THEN [f EXCEPT !.pc = "done", !.ret = RetUndefined,
                   !.calls = Append(@, "sendOtp:" \o outcome)]
    ELSE [f EXCEPT !.pc = "save",
                   !.calls = Append(@, "sendOtp:" \o outcome)]

\* lines 93-99: the awaited sendOtp has settled
AfterSendOtp(f, outcome) ==
    IF outcome = "throw"
    THEN [f EXCEPT !.pc = "done", !.ret = RetUndefined,
                   !.calls = Append(@, "sendOtp:throw")]
    ELSE [f EXCEPT !.pc = "save",
                   !.calls = Append(@, "sendOtp:" \o outcome)]

\* lines 95-103: the awaited save has settled
AfterSave(f, opts, outcome) ==
    IF outcome = "ok"
    THEN [f EXCEPT !.pc = "done", !.ret = RetString(OtpSentMessage),
                   !.calls = Append(@, "save:ok")]
    ELSE IF HasSendOtp(opts)
    THEN [f EXCEPT !.pc = "done", !.ret = RetUndefined,
                   !.calls = Append(@, "save:StorageError")]
    ELSE [f EXCEPT !.pc = "done", !.ret = Rejected("StorageError"),
                   !.calls = Append(@, "save:StorageError")]

\* lines 115-122: the probe of verifyOtp is built and findOne is issued
EnterVerifyOtp(f, op, phone, otp) ==
    [f EXCEPT !.op = op, !.pc = "findOne",
              !.phoneOtp = [phone |-> phone, otp |-> otp, verified |-> FALSE]]

\* lines 128-130: findOne found no row; verifyOtp returns false, and an
\* authenticate that called it waits for that value at line 183
AfterNoMatch(f) ==
    IF f.op = "authenticate"
    THEN [f EXCEPT !.pc = "verifyOtp", !.verified = FALSE,
                   !.calls = Append(@, "findOne:none")]
    ELSE [f EXCEPT !.pc = "done", !.verified = FALSE,
                   !.calls = Append(@, "findOne:none"),
                   !.ret = RetBool(FALSE)]

\* verifyOtp taking the row it found for good without marking it
AfterMatch_SkipUpdate(f, id) ==
    IF f.op = "authenticate"
    THEN [f EXCEPT !.pc = "verifyOtp", !.phoneOtpData = id,
                   !.verified = TRUE, !.calls = Append(@, "findOne:row")]
    ELSE [f EXCEPT !.pc = "done", !.phoneOtpData = id, !.verified = TRUE,
                   !.ret = RetBool(TRUE), !.calls = Append(@, "findOne:row")]

\* lines 123-126: findOne found a row, update is issued
AfterMatch(f, id) ==
    [f EXCEPT !.pc = "update", !.phoneOtpData = id,
              !.calls = Append(@, "findOne:row")]

\* line 127: update has settled; verifyOtp returns true, and an
\* authenticate that called it waits for that value at line 183
AfterUpdate(f) ==
    IF f.op = "authenticate"
    THEN [f EXCEPT !.pc = "verifyOtp", !.verified = TRUE,
                   !.calls = Append(@, "update:ok")]
    ELSE [f EXCEPT !.pc = "done", !.verified = TRUE,
                   !.ret = RetBool(TRUE),
                   !.calls = Append(@, "update:ok")]

\* authenticate going on to the directory whatever verifyOtp returned
AfterVerifyOtp_Continue(f) == [f EXCEPT !.pc = "findCustomerUser"]

\* lines 183-195: authenticate resumes with the value of verifyOtp
AfterVerifyOtp(f) ==
    IF f.verified
    THEN [f EXCEPT !.pc = "findCustomerUser"]
    ELSE [f EXCEPT !.pc = "done", !.ret = RetString(InvalidOtpMessage)]

\* the email check left out
EmailMissing_Never(defaultUserData) == FALSE

\* line 204
EmailMissing(defaultUserData) == defaultUserData.emailAddress = ""

\* authenticate going on to the builder although the directory holds a user
AfterUserFound_CreateAnyway(f, u) ==
    [f EXCEPT !.pc = "createCustomerAndUser",
              !.defaultUserData = [emailAddress |-> "u@x.com",
                                   firstName |-> "", lastName |-> ""],
              !.calls = @ \o <<"findCustomerUser:user",
                               "defaultUserDataBuilder:email">>]

\* lines 196-198: the directory holds a user for the phone
AfterUserFound(f, u) ==
    [f EXCEPT !.pc = "done", !.user = u, !.ret = RetUser(u),
              !.calls = Append(@, "findCustomerUser:user")]

\* lines 200-211: no user; the builder is called and its email is checked
AfterUserNotFound(f, d) ==
    IF EmailMissing(d)
    THEN [f EXCEPT !.pc = "done", !.defaultUserData = d,
                   !.ret = RetString(EmailRequiredMessage),
                   !.calls = @ \o <<"findCustomerUser:none",
                                    IF d.emailAddress = ""
                                    THEN "defaultUserDataBuilder:empty"
                                    ELSE "defaultUserDataBuilder:email">>]
    ELSE [f EXCEPT !.pc = "createCustomerAndUser", !.defaultUserData = d,
                   !.calls = @ \o <<"findCustomerUser:none",
                                    IF d.emailAddress = ""
                                    THEN "defaultUserDataBuilder:empty"
                                    ELSE "defaultUserDataBuilder:email">>]

\* createCustomerAndUser keyed by the email instead of the phone
CreateConfig_EmailAsIdentifier(f) ==
    [strategy |-> StrategyName,
     externalIdentifier |-> f.defaultUserData.emailAddress,
     verified |-> TRUE, emailAddress |-> f.defaultUserData.emailAddress,
     firstName |-> f.defaultUserData.firstName,
     lastName |-> f.defaultUserData.lastName]

\* lines 211-218: the argument of createCustomerAndUser
CreateConfig(f) ==
    [strategy |-> StrategyName, externalIdentifier |-> f.phoneOtp.phone,
     verified |-> TRUE, emailAddress |-> f.defaultUserData.emailAddress,
     firstName |-> f.defaultUserData.firstName,
     lastName |-> f.defaultUserData.lastName]

\* lines 210-224: createCustomerAndUser has settled
AfterCreate(f, outcome, id) ==
    IF outcome = "error"
    THEN [f EXCEPT !.pc = "done", !.ret = Rejected("DirectoryError"),
                   !.calls = Append(@, "createCustomerAndUser:error")]
    ELSE [f EXCEPT !.pc = "findOneByUserId", !.newCustomer = id,
                   !.calls = Append(@, "createCustomerAndUser:ok")]

\* authenticate returning the new user although its customer is missing
AfterFindCustomer_Swallow(f, found) ==
    IF found = 0
    THEN [f EXCEPT !.pc = "done", !.ret = RetUser(f.newCustomer),
                   !.calls = Append(@, "findOneByUserId:none")]
    ELSE [f EXCEPT !.pc = "customerUpdate", !.customer = found,
                   !.calls = Append(@, "findOneByUserId:customer")]

\* line 224: findOneByUserId has settled
AfterFindCustomer(f, found) ==
    IF found = 0
    THEN [f EXCEPT !.pc = "done", !.ret = Rejected("Customer not found"),
                   !.calls = Append(@, "findOneByUserId:none")]
    ELSE [f EXCEPT !.pc = "customerUpdate", !.customer = found,
                   !.calls = Append(@, "findOneByUserId:customer")]

\* lines 226-230: the customer update
UpdateCustomer(cs, id, phone) ==
    [cs EXCEPT ![id].phoneNumber = phone, ![id].firstName = phone]

\* lines 226-235: the customer update has settled
AfterCustomerUpdate(f, outcome) ==
    IF outcome = "ok"
    THEN [f EXCEPT !.pc = "done", !.ret = RetUser(f.newCustomer),
                   !.calls = Append(@, "customerUpdate:ok")]
    ELSE [f EXCEPT !.pc = "done", !.ret = Rejected("DirectoryError"),
                   !.calls = Append(@, "customerUpdate:error")]

-----------------------------------------------------------------------------
(* State *)

IdleFrame ==
    [op |-> "none", pc |-> "idle",
     phoneOtp |-> [phone |-> "", otp |-> Undefined, verified |-> FALSE],
     phoneOtpData |-> 0, verified |-> FALSE, user |-> 0,
     defaultUserData |-> [emailAddress |-> "", firstName |-> "", lastName |-> ""],
     newCustomer |-> 0, customer |-> 0, ret |-> Pending, calls |-> << >>]

\* What is kept of a call that has returned.
ResultOf(f) ==
    [op |-> f.op, phone |-> f.phoneOtp.phone, otp |-> f.phoneOtp.otp,
     ret |-> f.ret, calls |-> f.calls]

NoResult ==
    [op |-> "none", phone |-> "", otp |-> Undefined, ret |-> Pending,
     calls |-> << >>]

\* Concurrent requests are explored under the default generator policy (no
\* otpGeneratorOptions), with and without a notifier; the policy decides the
\* shape of the codes only.
Init ==
    /\ options \in [sendOtp : BOOLEAN, otpGeneratorOptions : {Undefined}]
    /\ store = << >>
    /\ users = << >>
    /\ customers = << >>
    /\ frame = [p \in Procs |-> IdleFrame]
    /\ lastResult = NoResult
    /\ trueReturns = << >>

\* Requests served one after the other are explored under every policy of
\* RequestPolicies.
SeqInit ==
    /\ options \in [sendOtp : BOOLEAN, otpGeneratorOptions : RequestPolicies]
    /\ store = << >>
    /\ users = << >>
    /\ customers = << >>
    /\ frame = [p \in Procs |-> IdleFrame]
    /\ lastResult = NoResult
    /\ trueReturns = << >>

Free(p) == frame[p].pc = "idle"
Quiet == \A p \in Procs : Free(p)
Running(o) == {p \in Procs : frame[p].op = o}

\* A new request takes the lowest free slot.
FreeSlot(p) == Free(p) /\ \A q \in Procs : q < p => ~Free(q)

\* The request in slot p moves to frame f; when f has returned the slot is
\* freed and the result is recorded.
Goes(p, f) ==
    IF f.pc = "done"
    THEN /\ frame' = [frame EXCEPT ![p] = IdleFrame]
         /\ lastResult' = ResultOf(f)
    ELSE /\ frame' = [frame EXCEPT ![p] = f]
         /\ UNCHANGED lastResult

-----------------------------------------------------------------------------
(* requestOtp, lines 69-105 *)

\* The call runs to its first await: sendOtp when a notifier is configured,
\* save otherwise.
RequestOtp(p) ==
    /\ FreeSlot(p)
    /\ Len(store) + Cardinality(Running("requestOtp")) < MaxRecords
    /\ \E phone \in Phones, seed \in Seeds :
         /\ SeedAccepted(options.otpGeneratorOptions, seed)
         /\ frame' = [frame EXCEPT
                         ![p] = EnterRequestOtp(IdleFrame, options, phone, seed)]
    /\ UNCHANGED <<options, store, users, customers, lastResult, trueReturns>>

SendOtp(p) ==
    /\ frame[p].pc = "sendOtp"
    /\ \E outcome \in {"true", "false", "throw"} :
         Goes(p, AfterSendOtp(frame[p], outcome))
    /\ UNCHANGED <<options, store, users, customers, trueReturns>>

SaveSettles(p, f, outcome) ==
    /\ Goes(p, AfterSave(f, options, outcome))
    /\ IF outcome = "ok"
       THEN /\ store' = SaveRow(store, f.phoneOtp)
            /\ trueReturns' = Append(trueReturns, 0)
       ELSE UNCHANGED <<store, trueReturns>>

Save(p) ==
    /\ frame[p].pc = "save"
    /\ \E outcome \in {"ok", "StorageError"} :
         SaveSettles(p, frame[p], outcome)
    /\ UNCHANGED <<options, users, customers>>

-----------------------------------------------------------------------------
(* verifyOtp, lines 114-131, called directly or from authenticate (line    *)
(* 183).  The call runs to the await of findOne in the step that starts it; *)
(* findOne and update settle in steps of their own.                        *)

VerifyOtp(p) ==
    /\ FreeSlot(p)
    /\ \E phone \in Phones, otp \in OtpInputs :
         frame' = [frame EXCEPT
                      ![p] = EnterVerifyOtp(IdleFrame, "verifyOtp", phone, otp)]
    /\ UNCHANGED <<options, store, users, customers, lastResult, trueReturns>>

Authenticate(p) ==
    /\ FreeSlot(p)
    /\ Len(users) + Cardinality(Running("authenticate")) < MaxUsers
    /\ \E phone \in Phones, otp \in OtpInputs :
         frame' = [frame EXCEPT
                      ![p] = EnterVerifyOtp(IdleFrame, "authenticate", phone, otp)]
    /\ UNCHANGED <<options, store, users, customers, lastResult, trueReturns>>

FindOneSettles(p, f) ==
    IF FindOneMatches(store, f.phoneOtp) = {}
    THEN Goes(p, AfterNoMatch(f))
    ELSE \E id \in FindOneMatches(store, f.phoneOtp) :
            Goes(p, AfterMatch(f, id))

FindOne(p) ==
    /\ frame[p].pc = "findOne"
    /\ FindOneSettles(p, frame[p])
    /\ UNCHANGED <<options, store, users, customers, trueReturns>>

Update(p) ==
    /\ frame[p].pc = "update"
    /\ store' = MarkVerified(store, frame[p].phoneOtpData)
    /\ trueReturns' = [trueReturns EXCEPT ![frame[p].phoneOtpData] = @ + 1]
    /\ Goes(p, AfterUpdate(frame[p]))
    /\ UNCHANGED <<options, users, customers>>

-----
(* authenticate after verifyOtp, lines 183-236 *)

\* verifyOtp has returned; authenticate resumes at line 183
AwaitVerifyOtp(p) ==
    /\ frame[p].pc = "verifyOtp"
    /\ Goes(p, AfterVerifyOtp(frame[p]))
    /\ UNCHANGED <<options, store, users, customers, trueReturns>>

FindCustomerUser(p) ==
    /\ frame[p].pc = "findCustomerUser"
    /\ LET found == FindCustomerUser_Matches(users, StrategyName,
                                             frame[p].phoneOtp.phone)
       IN IF found # {}
          THEN \E u \in found : Goes(p, AfterUserFound(frame[p], u))
          ELSE \E d \in BuilderResults : Goes(p, AfterUserNotFound(frame[p], d))
    /\ UNCHANGED <<options, store, users, customers, trueReturns>>

CreateCustomerAndUser(p) ==
    /\ frame[p].pc = "createCustomerAndUser"
    /\ \E outcome \in {"ok", "noCustomer", "error"} :
         /\ Goes(p, AfterCreate(frame[p], outcome, Len(users) + 1))
         /\ users' = IF outcome = "error" THEN users
                     ELSE Append(users, NewUser(users, CreateConfig(frame[p])))
         /\ customers' =
               IF outcome = "ok"
               THEN Append(customers,
                           NewCustomerRow(customers, Len(users) + 1,
                                          CreateConfig(frame[p])))
               ELSE customers
    /\ UNCHANGED <<options, store, trueReturns>>

FindOneByUserId(p) ==
    /\ frame[p].pc = "findOneByUserId"
    /\ LET found == FindOneByUserId_Matches(customers, frame[p].newCustomer)
       IN IF found = {}
          THEN Goes(p, AfterFindCustomer(frame[p], 0))
          ELSE \E c \in found : Goes(p, AfterFindCustomer(frame[p], c))
    /\ UNCHANGED <<options, store, users, customers, trueReturns>>

CustomerUpdate(p) ==
    /\ frame[p].pc = "customerUpdate"
    /\ \E outcome \in {"ok", "error"} :
         /\ Goes(p, AfterCustomerUpdate(frame[p], outcome))
         /\ customers' = IF outcome = "ok"
                         THEN UpdateCustomer(customers, frame[p].customer,
                                             frame[p].phoneOtp.phone)
                         ELSE customers
    /\ UNCHANGED <<options, store, users, trueReturns>>

-----------------------------------------------------------------------------
(* Specifications *)

Step(p) ==
    \/ SendOtp(p)
    \/ Save(p)
    \/ FindOne(p)
    \/ Update(p)
    \/ AwaitVerifyOtp(p)
    \/ FindCustomerUser(p)
    \/ CreateCustomerAndUser(p)
    \/ FindOneByUserId(p)
    \/ CustomerUpdate(p)

\* Requests are served concurrently: a request may start at any time.
Next ==
    \E p \in Procs :
        \/ RequestOtp(p)
        \/ VerifyOtp(p)
        \/ Authenticate(p)
        \/ Step(p)

Spec == Init /\ [][Next]_vars

\* Requests are served one after the other: a request starts only when no
\* other request is running.
SeqRequestOtp(p) == Quiet /\ RequestOtp(p)
SeqVerifyOtp(p) == Quiet /\ VerifyOtp(p)
SeqAuthenticate(p) == Quiet /\ Authenticate(p)

SeqNext ==
    \E p \in Procs :
        \/ SeqRequestOtp(p)
        \/ SeqVerifyOtp(p)
        \/ SeqAuthenticate(p)
        \/ Step(p)

SeqSpec == SeqInit /\ [][SeqNext]_vars

-----------------------------------------------------------------------------
(* Vocabulary of the properties *)

\* The rows persisted for a phone and a code, and the unverified ones.
RowsOf(phone, otp) ==
    {i \in 1..Len(store) : store[i].phone = phone /\ store[i].otp = otp}

UnverifiedRowsOf(phone, otp) ==
    {i \in RowsOf(phone, otp) : ~store[i].verified}

RECURSIVE SumOver(_, _)
SumOver(f, S) ==
    IF S = {} THEN 0
    ELSE LET x == CHOOSE y \in S : TRUE IN f[x] + SumOver(f, S \ {x})

Has(calls, c) == \E i \in 1..Len(calls) : calls[i] = c

\* lastResult is the result of a call of op with these arguments.
Returned(r, op, phone, otp) == r.op = op /\ r.phone = phone /\ r.otp = otp

\* The awaited call the request in slot p is waiting for at pc settles in
\* this step.
Settles(p, pc) == frame[p].pc = pc /\ frame'[p] # frame[p]

\* The request in slot p returns in this step.
ReturnsFrom(p) == frame[p].pc # "idle" /\ frame'[p].pc = "idle"

\* A request starts in slot p in this step.
StartsIn(p) == frame[p].pc = "idle" /\ frame'[p].pc # "idle"

\* Some request returns in this step; lastResult' is then its result.
SomeReturn == \E p \in Procs : ReturnsFrom(p)

\* A call of op returns in this step, the call that returned before it was a
\* call of prevOp, and the two agree on the phone and on the code.
Follows(prevOp, op) ==
    /\ SomeReturn
    /\ lastResult.op = prevOp
    /\ lastResult'.op = op
    /\ lastResult'.phone = lastResult.phone
    /\ lastResult'.otp = lastResult.otp

Persisted(r) == r.op = "requestOtp" /\ r.ret.kind = "string"

-----------------------------------------------------------------------------
(* C1 *)

\* C1 as stated: with requests served one after the other, the verifyOtp
\* (phone, code) that follows a requestOtp which persisted (phone, code)
\* returns true, and a verifyOtp that follows a verifyOtp with the same
\* arguments which returned true returns false.
C1_ExactlyOnce ==
    [][ /\ (Follows("requestOtp", "verifyOtp") /\ Persisted(lastResult))
              => lastResult'.ret = RetBool(TRUE)
        /\ (Follows("verifyOtp", "verifyOtp") /\ lastResult.ret = RetBool(TRUE))
              => lastResult'.ret = RetBool(FALSE) ]_vars

\* C1 amended: the same, the second call returning false when the table holds
\* exactly one row with that phone and code.
C1_ExactlyOncePerRow ==
    [][ /\ (Follows("requestOtp", "verifyOtp") /\ Persisted(lastResult))
              => lastResult'.ret = RetBool(TRUE)
        /\ ( /\ Follows("verifyOtp", "verifyOtp")
             /\ lastResult.ret = RetBool(TRUE)
             /\ Cardinality(RowsOf(lastResult.phone, lastResult.otp)) = 1 )
              => lastResult'.ret = RetBool(FALSE) ]_vars

\* A second verifyOtp has returned false on the one row of its phone and
\* code, which a first call consumed.
C1_Witness ==
    /\ lastResult.op = "verifyOtp"
    /\ lastResult.ret = RetBool(FALSE)
    /\ Cardinality(RowsOf(lastResult.phone, lastResult.otp)) = 1
    /\ \A i \in RowsOf(lastResult.phone, lastResult.otp) :
          store[i].verified /\ trueReturns[i] = 1

-----------------------------------------------------------------------------
(* C2 *)

\* C2: for every interleaving, at most one verifyOtp (direct or inside
\* authenticate) returns true on the same row.
C2_AtMostOneSucceeds ==
    \A i \in 1..Len(trueReturns) : trueReturns[i] <= 1

-----------------------------------------------------------------------------
(* C3 *)

\* C3: with requests served one after the other, the calls that returned true
\* for a phone and a code never outnumber the rows persisted with them, a
\* call only matches a row that is unverified when findOne reads, and the
\* row it matched is still unverified when the call marks it.
C3_NoReplay ==
    /\ [](\A i \in 1..Len(store) :
            SumOver(trueReturns, RowsOf(store[i].phone, store[i].otp))
               <= Cardinality(RowsOf(store[i].phone, store[i].otp)))
    /\ [][\A p \in Procs :
            /\ (Settles(p, "findOne") /\ frame'[p].pc = "update")
                  => ~store[frame'[p].phoneOtpData].verified
            /\ (frame[p].pc = "update" /\ frame'[p] # frame[p])
                  => /\ ~store[frame[p].phoneOtpData].verified
                     /\ store'[frame[p].phoneOtpData].verified ]_vars

\* Two rows with the same phone and code have each been consumed once.
C3_Witness ==
    \E i, j \in 1..Len(store) :
        /\ i # j
        /\ store[i].phone = store[j].phone
        /\ store[i].otp = store[j].otp
        /\ store[i].verified /\ store[j].verified
        /\ trueReturns[i] = 1 /\ trueReturns[j] = 1

-----------------------------------------------------------------------------
(* C4 *)

\* C4: a verifyOtp whose findOne reads a table with no unverified row of its
\* phone and its code returns false in that step and changes no row and
\* nothing else; with such a row it goes on to update; the step that starts
\* the call changes nothing.
C4_NoMatchNoEffect ==
    [][\A p \in Procs :
          /\ (StartsIn(p) /\ frame'[p].op = "verifyOtp")
                => UNCHANGED <<store, users, customers, trueReturns>>
          /\ (Settles(p, "findOne") /\ frame[p].op = "verifyOtp")
                => IF UnverifiedRowsOf(frame[p].phoneOtp.phone,
                                       frame[p].phoneOtp.otp) = {}
                   THEN /\ ReturnsFrom(p)
                        /\ lastResult'.op = "verifyOtp"
                        /\ lastResult'.phone = frame[p].phoneOtp.phone
                        /\ lastResult'.otp = frame[p].phoneOtp.otp
                        /\ lastResult'.ret = RetBool(FALSE)
                        /\ UNCHANGED <<store, users, customers, trueReturns>>
                   ELSE frame'[p].pc = "update" ]_vars

\* verifyOtp has returned false for a code that an unverified row of the same
\* phone does not carry, and for a code that is already consumed.
C4_Witness ==
    /\ lastResult.op = "verifyOtp"
    /\ lastResult.ret = RetBool(FALSE)
    /\ \E i \in 1..Len(store) :
          /\ store[i].phone = lastResult.phone
          /\ store[i].otp # lastResult.otp
          /\ ~store[i].verified
    /\ \E j \in 1..Len(store) : store[j].verified

-----------------------------------------------------------------------------
(* C5 *)

\* C5: an authenticate whose findOne reads a table with no unverified row of
\* its phone and its code gets false from verifyOtp and, when it resumes,
\* returns the string "Invalid OTP", having made no call but findOne; none of
\* its steps changes the directory or the table.
C5_InvalidOtp ==
    /\ []((lastResult.op = "authenticate"
             /\ lastResult.ret = RetString(InvalidOtpMessage))
          => lastResult.calls = <<"findOne:none">>)
    /\ [][\A p \in Procs :
            /\ (StartsIn(p) /\ frame'[p].op = "authenticate")
                  => UNCHANGED <<store, users, customers>>
            /\ (Settles(p, "findOne") /\ frame[p].op = "authenticate")
                  => IF UnverifiedRowsOf(frame[p].phoneOtp.phone,
                                         frame[p].phoneOtp.otp) = {}
                     THEN /\ frame'[p].pc = "verifyOtp"
                          /\ ~frame'[p].verified
                          /\ UNCHANGED <<store, users, customers>>
                     ELSE frame'[p].pc = "update"
            /\ (Settles(p, "verifyOtp") /\ ~frame[p].verified)
                  => /\ ReturnsFrom(p)
                     /\ lastResult'.op = "authenticate"
                     /\ lastResult'.phone = frame[p].phoneOtp.phone
                     /\ lastResult'.otp = frame[p].phoneOtp.otp
                     /\ lastResult'.ret = RetString(InvalidOtpMessage)
                     /\ lastResult'.calls = <<"findOne:none">>
                     /\ UNCHANGED <<store, users, customers>> ]_vars

\* authenticate has returned "Invalid OTP" for a phone that has an unverified
\* row with another code.
C5_Witness ==
    /\ lastResult.op = "authenticate"
    /\ lastResult.ret = RetString(InvalidOtpMessage)
    /\ \E i \in 1..Len(store) :
          /\ store[i].phone = lastResult.phone
          /\ store[i].otp # lastResult.otp
          /\ ~store[i].verified

-----------------------------------------------------------------------------
(* C6 *)

\* The authenticate that returns in this step found no identity, got a
\* non-empty email from the builder and met no directory error.
CreatesCleanly(r) ==
    /\ ~Has(r.calls, "findCustomerUser:user")
    /\ ~Has(r.calls, "defaultUserDataBuilder:empty")
    /\ r.ret.kind # "rejected"

\* The result r is an identity created by the call, keyed by its phone.
NewIdentity(r, us) ==
    /\ r.ret.kind = "user"
    /\ Has(r.calls, "createCustomerAndUser:ok")
    /\ r.ret.user = Len(us)
    /\ us[r.ret.user].strategy = StrategyName
    /\ us[r.ret.user].externalIdentifier = r.phone

\* C6 as stated: with requests served one after the other, the authenticate
\* (phone, c) that follows a verifyOtp(phone, c) which returned true returns
\* a newly created identity whose externalIdentifier is the phone.
C6_EndToEnd ==
    [][(Follows("verifyOtp", "authenticate")
          /\ lastResult.ret = RetBool(TRUE)
          /\ CreatesCleanly(lastResult'))
       => NewIdentity(lastResult', users') ]_vars

\* C6 amended: the authenticate(phone, c) that follows the requestOtp which
\* persisted (phone, c) returns a newly created identity whose
\* externalIdentifier is the phone; the one that follows a verifyOtp(phone, c)
\* which returned true on the only row of (phone, c) returns "Invalid OTP".
C6_RequestThenAuthenticate ==
    [][ /\ (Follows("requestOtp", "authenticate")
              /\ Persisted(lastResult)
              /\ CreatesCleanly(lastResult'))
           => NewIdentity(lastResult', users')
        /\ (Follows("verifyOtp", "authenticate")
              /\ lastResult.ret = RetBool(TRUE)
              /\ Cardinality(RowsOf(lastResult.phone, lastResult.otp)) = 1)
           => lastResult'.ret = RetString(InvalidOtpMessage) ]_vars

\* authenticate has returned an identity it created for its phone.
C6_Witness ==
    /\ lastResult.op = "authenticate"
    /\ NewIdentity(lastResult, users)
    /\ \E i \in RowsOf(lastResult.phone, lastResult.otp) : store[i].verified

-----------------------------------------------------------------------------
(* C7 *)

\* C7: without a notifier, a requestOtp issues save as its first call and
\* changes nothing in the step that starts it; when the save succeeds the
\* step appends exactly one row, with the phone of the call, the generated
\* code and verified = false, changes nothing else, and the call returns a
\* non-empty string.
C7_PersistsOneRow ==
    [][~HasSendOtp(options)
       => \A p \in Procs :
            /\ (StartsIn(p) /\ frame'[p].op = "requestOtp")
                  => /\ frame'[p].pc = "save"
                     /\ UNCHANGED <<store, users, customers>>
            /\ (Settles(p, "save") /\ lastResult'.ret.kind # "rejected")
                  => /\ ReturnsFrom(p)
                     /\ store' = Append(store,
                                        [id |-> Len(store) + 1,
                                         phone |-> frame[p].phoneOtp.phone,
                                         otp |-> frame[p].phoneOtp.otp,
                                         verified |-> FALSE])
                     /\ lastResult'.op = "requestOtp"
                     /\ lastResult'.phone = frame[p].phoneOtp.phone
                     /\ lastResult'.otp = frame[p].phoneOtp.otp
                     /\ lastResult'.ret.kind = "string"
                     /\ lastResult'.ret.str # ""
                     /\ UNCHANGED <<users, customers>> ]_vars

\* Without a notifier a second row has been persisted next to a first.
C7_Witness ==
    /\ ~HasSendOtp(options)
    /\ Persisted(lastResult)
    /\ Len(store) = 2
    /\ store[2].phone = lastResult.phone
    /\ store[2].otp = lastResult.otp
    /\ ~store[2].verified

-----------------------------------------------------------------------------
(* C8 *)

SendSettled(c) == c \in {"sendOtp:true", "sendOtp:false"}

\* With a notifier, sendOtp is the first call of every requestOtp and save is
\* made only after it has settled without throwing.
C8_SendFirst ==
    HasSendOtp(options) =>
       /\ \A p \in Procs :
             frame[p].op = "requestOtp" =>
                \/ frame[p].pc = "sendOtp" /\ frame[p].calls = << >>
                \/ /\ frame[p].pc = "save"
                   /\ Len(frame[p].calls) = 1
                   /\ SendSettled(frame[p].calls[1])
       /\ lastResult.op = "requestOtp" =>
             \/ lastResult.calls = <<"sendOtp:throw">>
             \/ /\ Len(lastResult.calls) = 2
                /\ SendSettled(lastResult.calls[1])
                /\ lastResult.calls[2] \in {"save:ok", "save:StorageError"}

\* With a notifier: a sendOtp that throws ends the request with no row
\* persisted, the table unchanged and undefined returned; after a sendOtp
\* that settled, a save that succeeds appends the row and the confirmation
\* is returned.
C8_SendOutcome ==
    HasSendOtp(options) =>
       \A p \in Procs :
             /\ (StartsIn(p) /\ frame'[p].op = "requestOtp")
                   => UNCHANGED <<store, lastResult>>
             /\ Settles(p, "sendOtp")
                   => UNCHANGED <<store, users, customers, trueReturns>>
             /\ (Settles(p, "sendOtp") /\ ReturnsFrom(p))
                   => /\ lastResult'.calls = <<"sendOtp:throw">>
                      /\ lastResult'.ret = RetUndefined
             /\ (frame[p].op = "requestOtp" /\ ReturnsFrom(p)
                   /\ Has(lastResult'.calls, "save:ok"))
                   => /\ store' = Append(store,
                             [id |-> Len(store) + 1,
                              phone |-> frame[p].phoneOtp.phone,
                              otp |-> frame[p].phoneOtp.otp,
                              verified |-> FALSE])
                      /\ lastResult'.ret = RetString(OtpSentMessage)

\* The code of a requestOtp whose sendOtp threw matches no unverified row.
C8_NeverVerifiable ==
    (lastResult.op = "requestOtp" /\ lastResult.calls = <<"sendOtp:throw">>)
       => UnverifiedRowsOf(lastResult.phone, lastResult.otp) = {}

\* C8 as stated: sendOtp comes before any save; when it succeeds the row is
\* persisted and the confirmation returned; when it fails no row is
\* persisted, the table is unchanged, nothing usable is returned, and the
\* generated code can never be verified.
C8_SendThenSaveNeverVerifiable ==
    /\ []C8_SendFirst
    /\ [][C8_SendOutcome]_vars
    /\ []C8_NeverVerifiable

\* C8 amended: the same without the last clause; the code of the failed
\* request stays verifiable exactly through the rows other requests
\* persisted with the same phone and code, which the failed request leaves
\* as they are.
C8_SendThenSave ==
    /\ []C8_SendFirst
    /\ [][C8_SendOutcome]_vars

\* A requestOtp whose sendOtp threw has returned undefined while the table
\* holds a row another request persisted.
C8_Witness ==
    /\ HasSendOtp(options)
    /\ lastResult.op = "requestOtp"
    /\ lastResult.calls = <<"sendOtp:throw">>
    /\ lastResult.ret = RetUndefined
    /\ Len(store) = 1
    /\ store[1].phone # lastResult.phone

-----------------------------------------------------------------------------
(* C9 *)

\* C9: a requestOtp whose save failed ends in an error, with a notifier and
\* without one.
C9_StorageErrorSurfaced ==
    (lastResult.op = "requestOtp" /\ Has(lastResult.calls, "save:StorageError"))
       => lastResult.ret.kind = "rejected"

-----------------------------------------------------------------------------
(* C10 *)

\* C10: an authenticate whose code verified, that found no identity and whose
\* builder returned an empty email returns the string "Valid default email
\* address is required"; it never calls createCustomerAndUser or the customer
\* update, and the step that ends it leaves the directory unchanged.
C10_EmailRequired ==
    /\ [](/\ \A p \in Procs :
               ~Has(frame[p].calls, "defaultUserDataBuilder:empty")
          /\ Has(lastResult.calls, "defaultUserDataBuilder:empty")
               => /\ lastResult.ret = RetString(EmailRequiredMessage)
                  /\ lastResult.calls =
                        <<"findOne:row", "update:ok", "findCustomerUser:none",
                          "defaultUserDataBuilder:empty">>)
    /\ [][\A p \in Procs :
            (ReturnsFrom(p)
               /\ Has(lastResult'.calls, "defaultUserDataBuilder:empty"))
            => UNCHANGED <<users, customers>> ]_vars

\* authenticate has returned the email failure for a phone whose code it
\* consumed and that has no identity.
C10_Witness ==
    /\ lastResult.op = "authenticate"
    /\ lastResult.ret = RetString(EmailRequiredMessage)
    /\ \E i \in RowsOf(lastResult.phone, lastResult.otp) : store[i].verified
    /\ FindCustomerUser_Matches(users, StrategyName, lastResult.phone) = {}

-----------------------------------------------------------------------------
(* C11 *)

\* The directory holds an identity of the strategy "phone" for this phone.
HoldsIdentity(us, phone) ==
    FindCustomerUser_Matches(us, StrategyName, phone) # {}

\* C11: an authenticate whose code verified and whose phone has an identity
\* in the directory at the lookup returns that identity in the lookup step;
\* it has called neither the builder, nor createCustomerAndUser, nor the
\* customer update, and the step leaves the directory unchanged.
C11_ExistingIdentity ==
    [][\A p \in Procs :
          ( /\ frame[p].pc = "findCustomerUser"
            /\ HoldsIdentity(users, frame[p].phoneOtp.phone)
            /\ frame'[p] # frame[p] )
          => /\ ReturnsFrom(p)
             /\ lastResult'.op = "authenticate"
             /\ lastResult'.phone = frame[p].phoneOtp.phone
             /\ lastResult'.ret.kind = "user"
             /\ lastResult'.ret.user
                   \in FindCustomerUser_Matches(users, StrategyName,
                                                lastResult'.phone)
             /\ lastResult'.calls =
                   <<"findOne:row", "update:ok", "findCustomerUser:user">>
             /\ UNCHANGED <<users, customers>> ]_vars

\* authenticate has returned the identity the directory already held for its
\* phone, after consuming a second code of that phone.
C11_Witness ==
    /\ lastResult.op = "authenticate"
    /\ lastResult.ret.kind = "user"
    /\ Has(lastResult.calls, "findCustomerUser:user")
    /\ users[lastResult.ret.user].externalIdentifier = lastResult.phone
    /\ \E i \in RowsOf(lastResult.phone, lastResult.otp) : store[i].verified
    /\ Len(users) = 1

-----------------------------------------------------------------------------
(* C12 *)

\* The policy as its fields read: a class is enabled when its field says so,
\* an omitted digits field enables the digits, an omitted field of another
\* class leaves the class out.
EnabledClasses(g) ==
    [upperCaseAlphabets |-> g.upperCaseAlphabets = Some(TRUE),
     specialChars |-> g.specialChars = Some(TRUE),
     digits |-> g.digits # Some(FALSE),
     lowerCaseAlphabets |-> g.lowerCaseAlphabets = Some(TRUE)]

EnabledChars(g) ==
    {AllowsChars(EnabledClasses(g))[k] :
        k \in 1..Len(AllowsChars(EnabledClasses(g)))}

\* The codes requestOtp has generated that are still on record: the rows of
\* the table and the code of the requestOtp that returned last.
GeneratedCodes ==
    {store[i].otp : i \in 1..Len(store)}
    \cup (IF lastResult.op = "requestOtp" THEN {lastResult.otp} ELSE {})

\* C12: under a configured policy that states a length and enables at least
\* one class, every generated code has that length and consists of
\* characters of the enabled classes only.
C12_LengthAndClasses ==
    ( /\ options.otpGeneratorOptions # Undefined
      /\ TruthyNum(options.otpGeneratorOptions[1].length)
      /\ EnabledChars(options.otpGeneratorOptions[1]) # {} )
    => \A c \in GeneratedCodes :
          /\ Len(c) = options.otpGeneratorOptions[1].length[1]
          /\ \A k \in 1..Len(c) :
                c[k] \in EnabledChars(options.otpGeneratorOptions[1])

-----------------------------------------------------------------------------
(* C13 *)

\* The calls an authenticate has made when it issues createCustomerAndUser.
CallsBeforeCreate ==
    <<"findOne:row", "update:ok", "findCustomerUser:none",
      "defaultUserDataBuilder:email">>

\* C13: every identity in the directory has a phone with a verified row; the
\* directory gains a user only in a step of an authenticate whose verifyOtp
\* returned true and whose lookup found nothing, and the new user is keyed by
\* the phone of that call; no step of requestOtp or verifyOtp adds a user.
C13_CreatedAfterVerification ==
    /\ [](\A u \in 1..Len(users) :
             \E i \in 1..Len(store) :
                /\ store[i].phone = users[u].externalIdentifier
                /\ store[i].verified)
    /\ [][users' # users
            => \E p \in Procs :
                 /\ frame[p].op = "authenticate"
                 /\ frame[p].pc = "createCustomerAndUser"
                 /\ frame'[p] # frame[p]
                 /\ frame[p].verified
                 /\ frame[p].calls = CallsBeforeCreate
                 /\ Len(users') = Len(users) + 1
                 /\ users'[Len(users')].externalIdentifier
                       = frame[p].phoneOtp.phone
                 /\ users'[Len(users')].strategy = StrategyName
                 /\ \A u \in 1..Len(users) : users'[u] = users[u] ]_vars

\* createCustomerAndUser has just created a user for an authenticate that is
\* still running, and the code of that call is on a verified row.
C13_Witness ==
    \E p \in Procs :
       /\ frame[p].op = "authenticate"
       /\ frame[p].pc = "findOneByUserId"
       /\ users[frame[p].newCustomer].externalIdentifier
             = frame[p].phoneOtp.phone
       /\ store[frame[p].phoneOtpData].verified
       /\ store[frame[p].phoneOtpData].otp = frame[p].phoneOtp.otp

-----------------------------------------------------------------------------
(* C14 *)

\* C14: no step of any call removes a row; every row keeps its id, its phone
\* and its code, and a row that is verified stays verified.
C14_RowsImmutable ==
    [][ /\ Len(store') >= Len(store)
        /\ \A i \in 1..Len(store) :
              /\ store'[i].id = store[i].id
              /\ store'[i].phone = store[i].phone
              /\ store'[i].otp = store[i].otp
              /\ store[i].verified => store'[i].verified ]_vars

\* Two rows are on record, the first verified and the second not, and an
\* authenticate that created an identity has returned last.
C14_Witness ==
    /\ Len(store) = 2
    /\ store[1].verified
    /\ ~store[2].verified
    /\ lastResult.op = "authenticate"
    /\ lastResult.ret.kind = "user"
    /\ Len(users) = 1

-----------------------------------------------------------------------------
(* C15 *)

\* C15: a row stays unverified until a verifyOtp (direct or inside
\* authenticate) called with exactly its phone and its code marks it, however
\* many rows the same phone has and whatever other requests run; a call
\* whose findOne reads the table while a row of its phone and its code is
\* unverified goes on to update: the direct call returns true and
\* authenticate goes on to the directory.
C15_EarlierCodesStayValid ==
    [][ /\ \A i \in 1..Len(store) :
              (~store[i].verified /\ store'[i].verified)
                 => \E p \in Procs :
                       /\ frame[p].pc = "update"
                       /\ frame'[p] # frame[p]
                       /\ frame[p].phoneOtpData = i
                       /\ frame[p].phoneOtp.phone = store[i].phone
                       /\ frame[p].phoneOtp.otp = store[i].otp
        /\ \A p \in Procs :
              /\ (Settles(p, "findOne")
                    /\ UnverifiedRowsOf(frame[p].phoneOtp.phone,
                                        frame[p].phoneOtp.otp) # {})
                    => /\ frame'[p].pc = "update"
                       /\ frame'[p].phoneOtpData
                             \in UnverifiedRowsOf(frame[p].phoneOtp.phone,
                                                  frame[p].phoneOtp.otp)
              /\ (Settles(p, "update") /\ frame[p].op = "verifyOtp")
                    => /\ ReturnsFrom(p)
                       /\ lastResult'.ret = RetBool(TRUE)
                       /\ lastResult'.phone = frame[p].phoneOtp.phone
                       /\ lastResult'.otp = frame[p].phoneOtp.otp
              /\ (Settles(p, "update") /\ frame[p].op = "authenticate")
                    => frame'[p].pc = "verifyOtp" /\ frame'[p].verified
              /\ (Settles(p, "verifyOtp") /\ frame[p].verified)
                    => frame'[p].pc = "findCustomerUser" ]_vars

\* Two requests of one phone left two rows with distinct codes; both codes
\* have verified, each once, the code of the earlier row last.
C15_Witness ==
    /\ Len(store) = 2
    /\ store[1].phone = store[2].phone
    /\ store[1].otp # store[2].otp
    /\ store[1].verified /\ store[2].verified
    /\ trueReturns = <<1, 1>>
    /\ lastResult.op = "verifyOtp"
    /\ lastResult.ret = RetBool(TRUE)
    /\ lastResult.phone = store[1].phone
    /\ lastResult.otp = store[1].otp

-----------------------------------------------------------------------------
(* C16 *)

\* The directory errors of the creation path, as the call log records them.
DirectoryErrors ==
    {"createCustomerAndUser:error", "findOneByUserId:none",
     "customerUpdate:error"}

HasDirectoryError(calls) == \E c \in DirectoryErrors : Has(calls, c)

\* C16: a directory error ends the authenticate in the step it happens in,
\* and the call ends rejected: it returns no identity and no failure string.
C16_DirectoryErrorPropagates ==
    /\ \A p \in Procs : ~HasDirectoryError(frame[p].calls)
    /\ HasDirectoryError(lastResult.calls)
          => /\ lastResult.op = "authenticate"
             /\ lastResult.ret.kind = "rejected"
             /\ HasDirectoryError(<<lastResult.calls[Len(lastResult.calls)]>>)

\* authenticate has ended rejected because the customer of the user it had
\* just created was not found.
C16_Witness ==
    /\ lastResult.op = "authenticate"
    /\ lastResult.ret = Rejected("Customer not found")
    /\ Has(lastResult.calls, "createCustomerAndUser:ok")
    /\ Len(users) = 1
    /\ FindOneByUserId_Matches(customers, 1) = {}

-----------------------------------------------------------------------------
(* C17 *)

\* The codes a generator run of the default length over the classes the
\* policy enables can produce.
CodesOfPolicy(g) ==
    {Generate(DefaultLength, EnabledClasses(g), s) :
        s \in {x \in Seeds :
                 FirstDrawAccepted(DefaultLength, EnabledClasses(g), x)}}

\* C17: under a configured policy that omits the length, every generated
\* code has the default length and is one the generator produces over the
\* classes the policy enables.
C17_DefaultsIndependent ==
    ( /\ options.otpGeneratorOptions # Undefined
      /\ options.otpGeneratorOptions[1].length = Undefined )
    => \A c \in GeneratedCodes :
          /\ Len(c) = DefaultLength
          /\ c \in CodesOfPolicy(options.otpGeneratorOptions[1])

-----------------------------------------------------------------------------
(* C18 *)

\* The result r is an authenticate that verified its code and then failed on
\* the email check or on a directory error.
FailedAfterVerification(r) ==
    /\ r.op = "authenticate"
    /\ Has(r.calls, "update:ok")
    /\ \/ r.ret = RetString(EmailRequiredMessage)
       \/ r.ret.kind = "rejected"

\* An authenticate that failed after verification leaves a verified row of
\* its phone and code.
C18_LeftVerified ==
    FailedAfterVerification(lastResult)
       => \E i \in RowsOf(lastResult.phone, lastResult.otp) : store[i].verified

\* C18 as stated: with requests served one after the other, an authenticate
\* that failed after verification leaves its row verified, and the
\* authenticate with the same phone and code that follows it returns
\* "Invalid OTP".
C18_RepeatIsInvalid ==
    /\ []C18_LeftVerified
    /\ [][(Follows("authenticate", "authenticate")
             /\ FailedAfterVerification(lastResult))
          => lastResult'.ret = RetString(InvalidOtpMessage) ]_vars

\* C18 amended: the same, the repeated call returning "Invalid OTP" when the
\* table holds exactly one row with that phone and code.
C18_RepeatIsInvalidPerRow ==
    /\ []C18_LeftVerified
    /\ [][(Follows("authenticate", "authenticate")
             /\ FailedAfterVerification(lastResult)
             /\ Cardinality(RowsOf(lastResult.phone, lastResult.otp)) = 1)
          => lastResult'.ret = RetString(InvalidOtpMessage) ]_vars

\* The one row on record was consumed by an authenticate that created a user
\* and ended on the missing customer; the authenticate repeated with the same
\* phone and code has returned "Invalid OTP".
C18_Witness ==
    /\ Len(store) = 1
    /\ store[1].verified
    /\ trueReturns = <<1>>
    /\ Len(users) = 1
    /\ customers = << >>
    /\ lastResult.op = "authenticate"
    /\ lastResult.phone = store[1].phone
    /\ lastResult.otp = store[1].otp
    /\ lastResult.ret = RetString(InvalidOtpMessage)

-----------------------------------------------------------------------------
(* C19 *)

\* The authenticate in slot p has passed the directory lookup with no user
\* found and has called createCustomerAndUser.
CalledCreate(p) ==
    /\ frame[p].op = "authenticate"
    /\ Has(frame[p].calls, "findCustomerUser:none")
    /\ Has(frame[p].calls, "defaultUserDataBuilder:email")

\* C19: for every interleaving, no two authenticate calls of one phone with
\* different codes have both passed the lookup and called
\* createCustomerAndUser, and the directory holds at most one identity per
\* phone.
C19_OneIdentityPerPhone ==
    /\ \A p, q \in Procs :
          ( /\ CalledCreate(p) /\ CalledCreate(q)
            /\ frame[p].phoneOtp.phone = frame[q].phoneOtp.phone
            /\ frame[p].phoneOtp.otp # frame[q].phoneOtp.otp )
          => p = q
    /\ \A u, v \in 1..Len(users) :
          ( /\ users[u].strategy = users[v].strategy
            /\ users[u].externalIdentifier = users[v].externalIdentifier )
          => u = v

-----------------------------------------------------------------------------
(* C20 *)

\* A requestOtp whose sendOtp resolved false goes on to save.
C20_FalseGoesOn ==
    /\ \A p \in Procs :
          Has(frame[p].calls, "sendOtp:false") => frame[p].pc = "save"
    /\ (lastResult.op = "requestOtp" /\ Has(lastResult.calls, "sendOtp:false"))
          => /\ Len(lastResult.calls) = 2
             /\ lastResult.calls[2] \in {"save:ok", "save:StorageError"}

\* C20: a requestOtp whose sendOtp resolved false goes on to save; when the
\* save succeeds the row is appended unverified, the confirmation message is
\* returned, and findOne matches the new row for its phone and code.
C20_FalseIsDelivered ==
    /\ []C20_FalseGoesOn
    /\ [][\A p \in Procs :
            ( /\ frame[p].pc = "save"
              /\ frame[p].calls = <<"sendOtp:false">>
              /\ ReturnsFrom(p)
              /\ Has(lastResult'.calls, "save:ok") )
            => /\ lastResult'.ret = RetString(OtpSentMessage)
               /\ store' = Append(store,
                                  [id |-> Len(store) + 1,
                                   phone |-> frame[p].phoneOtp.phone,
                                   otp |-> frame[p].phoneOtp.otp,
                                   verified |-> FALSE])
               /\ Len(store') \in
                     FindOneMatches(store',
                                    [phone |-> lastResult'.phone,
                                     otp |-> lastResult'.otp,
                                     verified |-> FALSE]) ]_vars

\* A requestOtp whose sendOtp resolved false has returned the confirmation
\* message and its row is on record, unverified.
C20_Witness ==
    /\ lastResult.op = "requestOtp"
    /\ lastResult.calls = <<"sendOtp:false", "save:ok">>
    /\ lastResult.ret = RetString(OtpSentMessage)
    /\ UnverifiedRowsOf(lastResult.phone, lastResult.otp) # {}

=============================================================================
